---- MODULE Spec2Model ----
(***************************************************************************)
(* Model of the website uptime monitor: website_monitor.py (the variant    *)
(* with hardcoded settings) and website_monitor_config.py (the variant     *)
(* that reads config.json and adds a summary message).                     *)
(*                                                                         *)
(* Python values are tagged records; Python str is a TLA+ string; a dict   *)
(* is the sequence of its items in insertion order; Optional[int] is <<>>  *)
(* for None and <<n>> for n.  The state file is the sequence of the JSON   *)
(* lexemes it holds (white space between lexemes, which json.load skips    *)
(* and json.dump(indent=2) inserts, is not represented).                   *)
(***************************************************************************)
EXTENDS Integers, Sequences, FiniteSets, TLC

VARIABLES
    variant,         \* "base": website_monitor.py, "config": website_monitor_config.py
    WEBSITES,        \* the configured target list
    TIMEOUT_SECONDS, \* the configured timeout
    STATE_FILE,      \* the state file on disk: [exists, text]
    pc,              \* the stage of the current run of main()
    previous_state,  \* main's local: what load_state() returned
    current_state,   \* main's local: the map built this run
    status_changed,  \* main's local: the queued change records
    i,               \* number of targets checked so far in the for loop
    j,               \* number of change records sent so far
    checked,         \* every (website, is_up, error_msg, status_code) of this run, in loop order
    sent,            \* every send_telegram_message call of this run: [message, returned]
    io,              \* how this run's read and write of STATE_FILE ended
    last_run,        \* the run of main() before this one, when main() is run twice in a row
    probe            \* argument and result of a function applied on its own

vars == <<variant, WEBSITES, TIMEOUT_SECONDS, STATE_FILE, pc, previous_state,
          current_state, status_changed, i, j, checked, sent, io, last_run, probe>>

(***************************************************************************)
(* Bounds of the model.                                                    *)
(***************************************************************************)
\* longest configured target list
MaxTargets == 2

\* the URLs that configurations and state files are drawn from
URLS == {"https://a.test", "https://b.test"}

(***************************************************************************)
(* Python values.                                                          *)
(***************************************************************************)
PyBool(b) == [type |-> "bool", b |-> b]
PyNone == [type |-> "NoneType"]
PyStr(s) == [type |-> "str", s |-> s]
PyList(xs) == [type |-> "list", elems |-> xs]
PyDict(items) == [type |-> "dict", items |-> items]
EmptyDict == PyDict(<<>>)

IsDict(v) == v.type = "dict"
IsBool(v) == v.type = "bool"

\* Python's == on the values that occur here
PyEq(a, b) ==
    /\ a.type = b.type
    /\ a = b

\* position of key k in the items of dict d, 0 when absent
KeyIndex(d, k) ==
    LET hits == {n \in 1..Len(d.items) : d.items[n].key = k}
    IN IF hits = {} THEN 0 ELSE CHOOSE n \in hits : TRUE

\* d[k] = v: an existing key keeps its position, a new key is appended
DictSet(d, k, v) ==
    LET n == KeyIndex(d, k)
    IN IF n = 0
       THEN PyDict(Append(d.items, [key |-> k, value |-> v]))
       ELSE PyDict([d.items EXCEPT ![n] = [key |-> k, value |-> v]])

\* d.get(k, default)
DictGet(d, k, default) ==
    LET n == KeyIndex(d, k)
    IN IF n = 0 THEN default ELSE d.items[n].value

DictKeys(d) == {d.items[n].key : n \in 1..Len(d.items)}

\* d1 == d2 for dicts: the same keys with the same values, in any order
DictEq(d1, d2) ==
    /\ DictKeys(d1) = DictKeys(d2)
    /\ \A k \in DictKeys(d1) : PyEq(DictGet(d1, k, PyNone), DictGet(d2, k, PyNone))

None == <<>>
Some(n) == <<n>>

\* s[:n]
Prefix(s, n) == IF Len(s) <= n THEN s ELSE SubSeq(s, 1, n)

RECURSIVE ContainsFrom(_, _, _)
ContainsFrom(s, needle, n) ==
    IF n + Len(needle) - 1 > Len(s) THEN FALSE
    ELSE IF SubSeq(s, n, n + Len(needle) - 1) = needle THEN TRUE
    ELSE ContainsFrom(s, needle, n + 1)

\* needle in s
Contains(s, needle) == ContainsFrom(s, needle, 1)

\* f"{x}" of an Optional[int]
FormatCode(c) == IF c = None THEN "None" ELSE ToString(c[1])

(***************************************************************************)
(* json.dump and json.load on the lexemes of the state file.               *)
(***************************************************************************)
Quote(s) == "\"" \o s \o "\""
IsStringLexeme(t) == Len(t) >= 2 /\ SubSeq(t, 1, 1) = "\"" /\ SubSeq(t, Len(t), Len(t)) = "\""
Unquote(t) == SubSeq(t, 2, Len(t) - 1)

\* the lexemes of a value that json.dump writes
RECURSIVE JsonItems(_, _)
\* json.dump writing Python's own names for the booleans
JsonScalarPythonNames(v) ==
    CASE v.type = "bool" -> IF v.b THEN "True" ELSE "False"
      [] v.type = "NoneType" -> "None"
      [] v.type = "str" -> Quote(v.s)

JsonScalar(v) ==
    CASE v.type = "bool" -> IF v.b THEN "true" ELSE "false"
      [] v.type = "NoneType" -> "null"
      [] v.type = "str" -> Quote(v.s)

JsonItems(items, n) ==
    IF n > Len(items) THEN <<>>
    ELSE (IF n > 1 THEN <<",">> ELSE <<>>)
         \o <<Quote(items[n].key), ":", JsonScalar(items[n].value)>>
         \o JsonItems(items, n + 1)

\* json.dump(state, f, indent=2) of a dict with scalar values
JsonDump(d) == <<"{">> \o JsonItems(d.items, 1) \o <<"}">>

ParseFail == [ok |-> FALSE, value |-> PyNone, next |-> 0]
ParseOk(v, n) == [ok |-> TRUE, value |-> v, next |-> n]

\* a scalar at position n
ParseScalar(text, n) ==
    IF n > Len(text) THEN ParseFail
    ELSE CASE text[n] = "true" -> ParseOk(PyBool(TRUE), n + 1)
           [] text[n] = "false" -> ParseOk(PyBool(FALSE), n + 1)
           [] text[n] = "null" -> ParseOk(PyNone, n + 1)
           [] IsStringLexeme(text[n]) -> ParseOk(PyStr(Unquote(text[n])), n + 1)
           [] OTHER -> ParseFail

\* the members of an object from position n on, after "{" or ","; d holds
\* the members read so far (a repeated key keeps its last value)
RECURSIVE ParseMembers(_, _, _)
ParseMembers(text, n, d) ==
    IF n + 2 > Len(text) THEN ParseFail
    ELSE IF ~IsStringLexeme(text[n]) \/ text[n + 1] # ":" THEN ParseFail
    ELSE LET v == ParseScalar(text, n + 2)
         IN IF ~v.ok \/ v.next > Len(text) THEN ParseFail
            ELSE LET d2 == DictSet(d, Unquote(text[n]), v.value)
                 IN CASE text[v.next] = "}" -> ParseOk(d2, v.next + 1)
                      [] text[v.next] = "," -> ParseMembers(text, v.next + 1, d2)
                      [] OTHER -> ParseFail

\* the elements of an array from position n on, after "[" or ","
RECURSIVE ParseElements(_, _, _)
ParseElements(text, n, xs) ==
    LET v == ParseScalar(text, n)
    IN IF ~v.ok \/ v.next > Len(text) THEN ParseFail
       ELSE CASE text[v.next] = "]" -> ParseOk(PyList(Append(xs, v.value)), v.next + 1)
              [] text[v.next] = "," -> ParseElements(text, v.next + 1, Append(xs, v.value))
              [] OTHER -> ParseFail

\* one JSON value at position n: an object or an array of scalars, or a scalar
ParseValue(text, n) ==
    IF n > Len(text) THEN ParseFail
    ELSE CASE text[n] = "{" ->
                IF n + 1 <= Len(text) /\ text[n + 1] = "}"
                THEN ParseOk(EmptyDict, n + 2)
                ELSE ParseMembers(text, n + 1, EmptyDict)
           [] text[n] = "[" ->
                IF n + 1 <= Len(text) /\ text[n + 1] = "]"
                THEN ParseOk(PyList(<<>>), n + 2)
                ELSE ParseElements(text, n + 1, <<>>)
           [] OTHER -> ParseScalar(text, n)

\* json.load(f): the value, or ok = FALSE where it raises JSONDecodeError
\* (no value, a malformed value, or text after the value)
JsonLoad(text) ==
    LET v == ParseValue(text, 1)
    IN IF v.ok /\ v.next = Len(text) + 1 THEN v ELSE ParseFail

(***************************************************************************)
(* The state file and its loader and saver.                                *)
(***************************************************************************)
NoFile == [exists |-> FALSE, text |-> <<>>]
FileWith(text) == [exists |-> TRUE, text |-> text]

\* what opening STATE_FILE for reading can do
ReadOutcomes == {"ok", "OSError"}

\* load_state(): f is the file, opened is how open(STATE_FILE, 'r') ends
load_state(f, opened) ==
    IF f.exists
    THEN IF opened = "ok"
         THEN LET r == JsonLoad(f.text)
              IN IF r.ok THEN r.value ELSE EmptyDict
         ELSE EmptyDict
    ELSE EmptyDict

\* what writing STATE_FILE can do: the write succeeds; open(STATE_FILE, 'w')
\* raises and the file is untouched; or the file is truncated by the open and
\* the write raises after `written` lexemes reached the disk
WriteOutcomes(state) ==
    {[kind |-> "ok", written |-> Len(JsonDump(state))],
     [kind |-> "open_fails", written |-> 0]}
    \cup {[kind |-> "write_fails", written |-> n] : n \in 0..(Len(JsonDump(state)) - 1)}

\* save_state(state): the file it leaves
save_state(f, state, w) ==
    CASE w.kind = "ok" -> FileWith(JsonDump(state))
      [] w.kind = "open_fails" -> f
      [] w.kind = "write_fails" -> FileWith(SubSeq(JsonDump(state), 1, w.written))

(***************************************************************************)
(* check_website.                                                          *)
(***************************************************************************)
Response(code) == [kind |-> "response", status_code |-> code, text |-> ""]
Raises(class, text) == [kind |-> class, status_code |-> 0, text |-> text]

\* the classes of exception requests.get raises, as the except clauses tell
\* them apart: Timeout is a RequestException, RequestException an Exception
ExceptionClasses == {"Timeout", "RequestException", "Exception"}

\* check_website with any 2xx status taken for up, and SSLError looked for
\* before ConnectionError
check_website_2xx(url, g, timeout) ==
    IF g.kind = "response"
    THEN IF g.status_code >= 200 /\ g.status_code < 300
         THEN [is_up |-> TRUE, error_msg |-> "OK", status_code |-> Some(g.status_code)]
         ELSE [is_up |-> FALSE, error_msg |-> "HTTP " \o ToString(g.status_code),
               status_code |-> Some(g.status_code)]
    ELSE IF g.kind = "Timeout"
    THEN [is_up |-> FALSE, error_msg |-> "Timeout after " \o ToString(timeout) \o "s",
          status_code |-> None]
    ELSE IF g.kind = "RequestException"
    THEN IF Contains(g.text, "SSLError")
         THEN [is_up |-> FALSE, error_msg |-> "SSL error", status_code |-> None]
         ELSE IF Contains(g.text, "ConnectionError")
         THEN [is_up |-> FALSE, error_msg |-> "Connection failed", status_code |-> None]
         ELSE [is_up |-> FALSE, error_msg |-> "Error: " \o Prefix(g.text, 100),
               status_code |-> None]
    ELSE [is_up |-> FALSE, error_msg |-> "Unexpected error: " \o Prefix(g.text, 100),
          status_code |-> None]

\* check_website(url): g is how the GET ended
check_website(url, g, timeout) ==
    IF g.kind = "response"
    THEN IF g.status_code = 200
         THEN [is_up |-> TRUE, error_msg |-> "OK", status_code |-> Some(g.status_code)]
         ELSE [is_up |-> FALSE, error_msg |-> "HTTP " \o ToString(g.status_code),
               status_code |-> Some(g.status_code)]
    ELSE IF g.kind = "Timeout"
    THEN [is_up |-> FALSE, error_msg |-> "Timeout after " \o ToString(timeout) \o "s",
          status_code |-> None]
    ELSE IF g.kind = "RequestException"
    THEN IF Contains(g.text, "ConnectionError")
         THEN [is_up |-> FALSE, error_msg |-> "Connection failed", status_code |-> None]
         ELSE IF Contains(g.text, "SSLError")
         THEN [is_up |-> FALSE, error_msg |-> "SSL error", status_code |-> None]
         ELSE [is_up |-> FALSE, error_msg |-> "Error: " \o Prefix(g.text, 100),
               status_code |-> None]
    ELSE [is_up |-> FALSE, error_msg |-> "Unexpected error: " \o Prefix(g.text, 100),
          status_code |-> None]

(***************************************************************************)
(* send_telegram_message and the two message formats.  A message is the    *)
(* sequence of its lines; the emoji and the bullet are written as their    *)
(* code points.                                                            *)
(***************************************************************************)
\* how requests.post ends
PostOutcomes == {Response(200), Response(429), Raises("Exception", "network error")}

\* send_telegram_message(message): the value returned
send_telegram_message(message, p) ==
    IF p.kind = "response"
    THEN p.status_code = 200
    ELSE FALSE

\* datetime.now().strftime("%Y-%m-%d %H:%M:%S")
Clock == {"2026-01-02 03:04:05"}

format_status_message(url, is_up, error_msg, status_code, now) ==
    LET emoji == IF is_up THEN "U+2705" ELSE "U+1F534"
        status == IF is_up THEN "UP" ELSE "DOWN"
        details == IF is_up THEN "Status code: " \o FormatCode(status_code)
                   ELSE "Error: " \o error_msg
    IN << emoji \o " <b>" \o url \o "</b>",
          "Status: <b>" \o status \o "</b>",
          details,
          "Time: " \o now >>

\* the keys of the items of d whose value is the bool b, in the dict's order
RECURSIVE SitesWith(_, _, _)
SitesWith(items, b, n) ==
    IF n > Len(items) THEN <<>>
    ELSE (IF items[n].value.b = b THEN <<items[n].key>> ELSE <<>>)
         \o SitesWith(items, b, n + 1)

Bullets(sites) == [n \in 1..Len(sites) |-> "  U+2022 " \o sites[n]]

\* the summary with both sections always present
format_summary_message_both_sections(state, now) ==
    <<"U+1F4CA <b>Current Status Summary</b>", "">>
    \o <<"U+2705 <b>UP:</b>">> \o Bullets(SitesWith(state.items, TRUE, 1)) \o <<"">>
    \o <<"U+1F534 <b>DOWN:</b>">> \o Bullets(SitesWith(state.items, FALSE, 1)) \o <<"">>
    \o <<"Time: " \o now>>

format_summary_message(state, now) ==
    LET up_sites == SitesWith(state.items, TRUE, 1)
        down_sites == SitesWith(state.items, FALSE, 1)
    IN <<"U+1F4CA <b>Current Status Summary</b>", "">>
       \o (IF up_sites # <<>>
           THEN <<"U+2705 <b>UP:</b>">> \o Bullets(up_sites) \o <<"">>
           ELSE <<>>)
       \o (IF down_sites # <<>>
           THEN <<"U+1F534 <b>DOWN:</b>">> \o Bullets(down_sites) \o <<"">>
           ELSE <<>>)
       \o <<"Time: " \o now>>

(***************************************************************************)
(* Configuration and environment.                                          *)
(***************************************************************************)
\* WEBSITES of website_monitor.py: a fixed list of distinct URLs
BaseWebsites == <<"https://a.test", "https://b.test">>

\* TIMEOUT_SECONDS of website_monitor.py
BaseTimeout == 30

\* config['websites']: any list of URLs, repeated URLs included
ConfigWebsites == UNION {[1..n -> URLS] : n \in 0..MaxTargets}

\* config['settings']['timeout_seconds']
ConfigTimeouts == {5}

\* how the GET of a check ends, in the runs of main()
RunGets == {Response(200), Response(500), Raises("Timeout", "Read timed out.")}

Item(k, v) == [key |-> k, value |-> v]

\* what STATE_FILE may hold when the monitor starts: nothing, a map written
\* by an earlier run, an object with a value that is no boolean, JSON that
\* is no object, and text that is no JSON
InitialFiles ==
    {NoFile}
    \cup {FileWith(JsonDump(EmptyDict))}
    \cup {FileWith(JsonDump(PyDict(<<Item(u, PyBool(b))>>))) : u \in URLS, b \in BOOLEAN}
    \cup {FileWith(JsonDump(PyDict(<<Item("https://a.test", PyBool(b1)),
                                     Item("https://b.test", PyBool(b2))>>))) :
            b1 \in BOOLEAN, b2 \in BOOLEAN}
    \cup {FileWith(JsonDump(PyDict(<<Item("https://a.test", PyNone)>>)))}
    \cup {FileWith(<<"[", "]">>), FileWith(<<"null">>)}
    \cup {FileWith(<<>>), FileWith(<<"{", "\"https://a.test\"", ":">>)}

NoRun == [ran |-> FALSE]
NoProbe == [op |-> "none"]
NoIo == [read |-> "none", write |-> "none"]

\* the locals of main() before it runs
FreshLocals ==
    /\ previous_state = EmptyDict
    /\ current_state = EmptyDict
    /\ status_changed = <<>>
    /\ i = 0
    /\ j = 0
    /\ checked = <<>>
    /\ sent = <<>>
    /\ io = NoIo

\* the module is loaded (the configuration is read) and main() is about to run
Init ==
    /\ variant \in {"base", "config"}
    /\ IF variant = "base"
       THEN WEBSITES = BaseWebsites /\ TIMEOUT_SECONDS = BaseTimeout
       ELSE WEBSITES \in ConfigWebsites /\ TIMEOUT_SECONDS \in ConfigTimeouts
    /\ STATE_FILE \in InitialFiles
    /\ pc = "Start"
    /\ FreshLocals
    /\ last_run = NoRun
    /\ probe = NoProbe

(***************************************************************************)
(* main(), one action per step.                                            *)
(***************************************************************************)
\* a site never seen before taken for down
was_up_default_down(previous, website) == DictGet(previous, website, PyBool(FALSE))

\* was_up = previous_state.get(website, True)
was_up(previous, website) == DictGet(previous, website, PyBool(TRUE))

\* every down reading taken for a change
changed_when_down(is_up, was) == ~is_up \/ ~PyEq(PyBool(is_up), was)

\* is_up != was_up
changed(is_up, was) == ~PyEq(PyBool(is_up), was)

\* the new map started from the loaded one
new_state_from_previous(previous) ==
    IF IsDict(previous) /\ \A n \in 1..Len(previous.items) : IsBool(previous.items[n].value)
    THEN previous
    ELSE EmptyDict

\* the map main() starts to build: current_state = {}
new_state(previous) == EmptyDict

\* previous_state = load_state(); current_state = {}; status_changed = []
LoadState ==
    /\ pc = "Start"
    /\ \E opened \in ReadOutcomes :
          /\ previous_state' = load_state(STATE_FILE, opened)
          /\ io' = [io EXCEPT !.read =
                      IF ~STATE_FILE.exists THEN "absent"
                      ELSE IF opened # "ok" THEN "OSError"
                      ELSE IF JsonLoad(STATE_FILE.text).ok THEN "ok" ELSE "JSONDecodeError"]
          /\ current_state' = new_state(load_state(STATE_FILE, opened))
    /\ status_changed' = <<>>
    /\ pc' = "Loaded"
    /\ UNCHANGED <<variant, WEBSITES, TIMEOUT_SECONDS, STATE_FILE, i, j, checked, sent,
                   last_run, probe>>

\* one iteration of `for website in WEBSITES`; previous_state.get raises
\* AttributeError when previous_state is no dict, which ends main()
CheckWebsite ==
    /\ pc = "Loaded"
    /\ i < Len(WEBSITES)
    /\ \E g \in RunGets :
          LET website == WEBSITES[i + 1]
              r == check_website(website, g, TIMEOUT_SECONDS)
              rec == [website |-> website, is_up |-> r.is_up,
                      error_msg |-> r.error_msg, status_code |-> r.status_code]
          IN /\ current_state' = DictSet(current_state, website, PyBool(r.is_up))
             /\ checked' = Append(checked, rec)
             /\ IF IsDict(previous_state)
                THEN /\ status_changed' =
                          IF changed(r.is_up, was_up(previous_state, website))
                          THEN Append(status_changed, rec)
                          ELSE status_changed
                     /\ pc' = "Loaded"
                ELSE /\ status_changed' = status_changed
                     /\ pc' = "Raised"
    /\ i' = i + 1
    /\ UNCHANGED <<variant, WEBSITES, TIMEOUT_SECONDS, STATE_FILE, previous_state, j, sent,
                   io, last_run, probe>>

\* the for loop over WEBSITES ends
EndChecks ==
    /\ pc = "Loaded"
    /\ i = Len(WEBSITES)
    /\ pc' = "Checked"
    /\ UNCHANGED <<variant, WEBSITES, TIMEOUT_SECONDS, STATE_FILE, previous_state,
                   current_state, status_changed, i, j, checked, sent, io, last_run, probe>>

\* the loop over status_changed left at the first send that fails
SendStatusUntilFailure ==
    /\ pc = "Checked"
    /\ j < Len(status_changed)
    /\ \E p \in PostOutcomes, now \in Clock :
          LET c == status_changed[j + 1]
              message == format_status_message(c.website, c.is_up, c.error_msg,
                                               c.status_code, now)
              returned == send_telegram_message(message, p)
          IN /\ sent' = Append(sent, [kind |-> "status", message |-> message,
                                      returned |-> returned])
             /\ j' = IF returned THEN j + 1 ELSE Len(status_changed)
    /\ UNCHANGED <<variant, WEBSITES, TIMEOUT_SECONDS, STATE_FILE, pc, previous_state,
                   current_state, status_changed, i, checked, io, last_run, probe>>

\* one iteration of `for ... in status_changed`: format, send, sleep
SendStatus ==
    /\ pc = "Checked"
    /\ j < Len(status_changed)
    /\ \E p \in PostOutcomes, now \in Clock :
          LET c == status_changed[j + 1]
              message == format_status_message(c.website, c.is_up, c.error_msg,
                                               c.status_code, now)
          IN sent' = Append(sent, [kind |-> "status", message |-> message,
                                   returned |-> send_telegram_message(message, p)])
    /\ j' = j + 1
    /\ UNCHANGED <<variant, WEBSITES, TIMEOUT_SECONDS, STATE_FILE, pc, previous_state,
                   current_state, status_changed, i, checked, io, last_run, probe>>

\* website_monitor_config.py only: the summary, after the loop, inside
\* `if status_changed`
SendSummary ==
    /\ variant = "config"
    /\ pc = "Checked"
    /\ j = Len(status_changed)
    /\ status_changed # <<>>
    /\ \E p \in PostOutcomes, now \in Clock :
          LET message == format_summary_message(current_state, now)
          IN sent' = Append(sent, [kind |-> "summary", message |-> message,
                                   returned |-> send_telegram_message(message, p)])
    /\ pc' = "Notified"
    /\ UNCHANGED <<variant, WEBSITES, TIMEOUT_SECONDS, STATE_FILE, previous_state,
                   current_state, status_changed, i, j, checked, io, last_run, probe>>

\* `if status_changed` is left (or skipped) with nothing more to send
EndNotify ==
    /\ pc = "Checked"
    /\ j = Len(status_changed)
    /\ variant = "base" \/ status_changed = <<>>
    /\ pc' = "Notified"
    /\ UNCHANGED <<variant, WEBSITES, TIMEOUT_SECONDS, STATE_FILE, previous_state,
                   current_state, status_changed, i, j, checked, sent, io, last_run, probe>>

\* save_state(current_state)
SaveState ==
    /\ pc = "Notified"
    /\ \E w \in WriteOutcomes(current_state) :
          /\ STATE_FILE' = save_state(STATE_FILE, current_state, w)
          /\ io' = [io EXCEPT !.write = w.kind]
    /\ pc' = "Saved"
    /\ UNCHANGED <<variant, WEBSITES, TIMEOUT_SECONDS, previous_state, current_state,
                   status_changed, i, j, checked, sent, last_run, probe>>

\* the closing log line; main() returns
Finish ==
    /\ pc = "Saved"
    /\ pc' = "Done"
    /\ UNCHANGED <<variant, WEBSITES, TIMEOUT_SECONDS, STATE_FILE, previous_state,
                   current_state, status_changed, i, j, checked, sent, io, last_run, probe>>

Ended == pc \in {"Done", "Raised"}

\* the scheduler starts the script again; website_monitor_config.py reads
\* config.json again, which may have been edited
NextRun ==
    /\ Ended
    /\ IF variant = "base"
       THEN UNCHANGED <<WEBSITES, TIMEOUT_SECONDS>>
       ELSE WEBSITES' \in ConfigWebsites /\ TIMEOUT_SECONDS' \in ConfigTimeouts
    /\ pc' = "Start"
    /\ previous_state' = EmptyDict
    /\ current_state' = EmptyDict
    /\ status_changed' = <<>>
    /\ i' = 0
    /\ j' = 0
    /\ checked' = <<>>
    /\ sent' = <<>>
    /\ io' = NoIo
    /\ UNCHANGED <<variant, STATE_FILE, last_run, probe>>

Run == LoadState \/ CheckWebsite \/ EndChecks \/ SendStatus \/ SendSummary
       \/ EndNotify \/ SaveState \/ Finish

Next == Run \/ NextRun

Spec == Init /\ [][Next]_vars

(***************************************************************************)
(* main() run twice in a row with the configuration unchanged.             *)
(***************************************************************************)
\* the is_up of each check of the run, in loop order
Results(cs) == [n \in 1..Len(cs) |-> cs[n].is_up]

\* the scheduler starts the script a second time; last_run keeps what the
\* first run did
RunAgain ==
    /\ Ended
    /\ ~last_run.ran
    /\ last_run' = [ran |-> TRUE, websites |-> WEBSITES, results |-> Results(checked),
                    state |-> current_state, ended |-> pc, write |-> io.write]
    /\ pc' = "Start"
    /\ previous_state' = EmptyDict
    /\ current_state' = EmptyDict
    /\ status_changed' = <<>>
    /\ i' = 0
    /\ j' = 0
    /\ checked' = <<>>
    /\ sent' = <<>>
    /\ io' = NoIo
    /\ UNCHANGED <<variant, WEBSITES, TIMEOUT_SECONDS, STATE_FILE, probe>>

NextTwice == Run \/ RunAgain

SpecTwice == Init /\ [][NextTwice]_vars

(***************************************************************************)
(* check_website applied to every way a GET can end.                       *)
(***************************************************************************)
\* 100 and 101 characters without the words the classification looks for
Text100 == "0123456789012345678901234567890123456789012345678901234567890123456789012345678901234567890123456789"
Text101 == Text100 \o "x"

\* str(e) of the exception raised
ErrorTexts ==
    {"",
     "Read timed out.",
     "Max retries exceeded (Caused by NewConnectionError('Failed to establish a new connection'))",
     "Max retries exceeded (Caused by SSLError(SSLCertVerificationError('certificate verify failed')))",
     "Caused by SSLError after ConnectionError",
     "Caused by ConnectTimeoutError wrapping ConnectionError",
     Text100,
     Text101,
     Text101 \o " SSLError",
     Text101 \o " ConnectionError"}

StatusCodes == {200, 201, 204, 301, 403, 404, 500, 503}

AllGets ==
    {Response(c) : c \in StatusCodes}
    \cup {Raises(class, text) : class \in ExceptionClasses, text \in ErrorTexts}

ProbeTimeouts == {5, 30}

OnlyProbe ==
    /\ variant = "base"
    /\ WEBSITES = BaseWebsites
    /\ TIMEOUT_SECONDS = BaseTimeout
    /\ pc = "Probe"
    /\ FreshLocals
    /\ last_run = NoRun

InitCheck ==
    /\ OnlyProbe
    /\ STATE_FILE = NoFile
    /\ \E url \in URLS, g \in AllGets, t \in ProbeTimeouts :
          probe = [op |-> "check_website", url |-> url, g |-> g, timeout |-> t,
                   done |-> FALSE,
                   result |-> [is_up |-> FALSE, error_msg |-> "", status_code |-> None]]

ProbeCheck ==
    /\ probe.op = "check_website"
    /\ ~probe.done
    /\ probe' = [probe EXCEPT !.done = TRUE,
                              !.result = check_website(probe.url, probe.g, probe.timeout)]
    /\ UNCHANGED <<variant, WEBSITES, TIMEOUT_SECONDS, STATE_FILE, pc, previous_state,
                   current_state, status_changed, i, j, checked, sent, io, last_run>>

SpecCheck == InitCheck /\ [][ProbeCheck]_vars

(***************************************************************************)
(* save_state(m) followed by load_state().                                 *)
(***************************************************************************)
\* the lists of distinct URLs of at most MaxTargets elements
DistinctLists ==
    {ws \in ConfigWebsites : \A a, b \in 1..Len(ws) : ws[a] = ws[b] => a = b}

\* the maps a run of main() can build: each key a URL, each value a bool
RunMaps ==
    UNION {{PyDict([n \in 1..Len(ws) |-> Item(ws[n], PyBool(bs[n]))]) :
              bs \in [1..Len(ws) -> BOOLEAN]} : ws \in DistinctLists}

InitRoundTrip ==
    /\ OnlyProbe
    /\ STATE_FILE \in InitialFiles
    /\ \E m \in RunMaps :
          probe = [op |-> "round_trip", m |-> m, before |-> STATE_FILE, step |-> "start",
                   write |-> "none", opened |-> "none", loaded |-> PyNone]

ProbeSave ==
    /\ probe.op = "round_trip"
    /\ probe.step = "start"
    /\ \E w \in WriteOutcomes(probe.m) :
          /\ STATE_FILE' = save_state(STATE_FILE, probe.m, w)
          /\ probe' = [probe EXCEPT !.step = "saved", !.write = w.kind]
    /\ UNCHANGED <<variant, WEBSITES, TIMEOUT_SECONDS, pc, previous_state,
                   current_state, status_changed, i, j, checked, sent, io, last_run>>

ProbeLoad ==
    /\ probe.op = "round_trip"
    /\ probe.step = "saved"
    /\ \E opened \in ReadOutcomes :
          probe' = [probe EXCEPT !.step = "loaded", !.opened = opened,
                                 !.loaded = load_state(STATE_FILE, opened)]
    /\ UNCHANGED <<variant, WEBSITES, TIMEOUT_SECONDS, STATE_FILE, pc, previous_state,
                   current_state, status_changed, i, j, checked, sent, io, last_run>>

NextRoundTrip == ProbeSave \/ ProbeLoad

SpecRoundTrip == InitRoundTrip /\ [][NextRoundTrip]_vars

(***************************************************************************)
(* Properties.                                                             *)
(***************************************************************************)
TargetSet == {WEBSITES[n] : n \in 1..Len(WEBSITES)}

\* the stages of a run of main() that follow load_state()
AfterLoad == {"Loaded", "Checked", "Notified", "Saved", "Done", "Raised"}
AfterNotify == {"Notified", "Saved", "Done"}
AfterSave == {"Saved", "Done"}

\* STATE_FILE holds exactly the map m
FileHolds(m) ==
    /\ STATE_FILE.exists
    /\ JsonLoad(STATE_FILE.text).ok
    /\ IsDict(JsonLoad(STATE_FILE.text).value)
    /\ DictEq(JsonLoad(STATE_FILE.text).value, m)

\* C1: every run of main() hands the map built this run to save_state after
\* the sends, the state file then holds exactly that map, and the run
\* completes without raising.
C1_RunSavesMapAndCompletes ==
    /\ pc # "Raised"
    /\ pc \in AfterSave => FileHolds(current_state)

\* C4: load_state always produces a mapping (the one stored in the file, or
\* the empty one), so that previous_state.get(url, True) is always defined.
C4_LoaderReturnsMapping ==
    pc \in AfterLoad => IsDict(previous_state)

\* C5: a run passes through Start, Loaded, Checked, Notified, Saved, Done in
\* that order, never back, and no failure of a stage keeps the next stage
\* from running.
StageSteps ==
    {<<"Start", "Loaded">>, <<"Loaded", "Loaded">>, <<"Loaded", "Checked">>,
     <<"Checked", "Checked">>, <<"Checked", "Notified">>, <<"Notified", "Saved">>,
     <<"Saved", "Done">>, <<"Done", "Start">>}

StageStep == <<pc, pc'>> \in StageSteps

C5_StagesInOrder == [][StageStep]_vars

\* C8: check_website never raises and classifies how its GET ended by the
\* first rule that matches: 200 is up with "OK"; another status is down with
\* "HTTP <code>"; a timeout is down with "Timeout after <N>s", whatever its
\* text; another request failure is "Connection failed", else "SSL error",
\* else "Error: " and 100 characters; anything else "Unexpected error: " and
\* 100 characters.  Up exactly for a 200 response, a code exactly for a
\* response.
C8_Classification ==
    (probe.op = "check_website" /\ probe.done) =>
        LET g == probe.g
            r == probe.result
            conn == Contains(g.text, "ConnectionError")
            ssl == Contains(g.text, "SSLError")
            first100 == IF Len(g.text) > 100 THEN SubSeq(g.text, 1, 100) ELSE g.text
        IN /\ (g.kind = "response" /\ g.status_code = 200) =>
                 (r.is_up /\ r.error_msg = "OK" /\ r.status_code = <<200>>)
           /\ (g.kind = "response" /\ g.status_code # 200) =>
                 (~r.is_up /\ r.error_msg = "HTTP " \o ToString(g.status_code)
                  /\ r.status_code = <<g.status_code>>)
           /\ g.kind = "Timeout" =>
                 (~r.is_up /\ r.status_code = <<>>
                  /\ r.error_msg = "Timeout after " \o ToString(probe.timeout) \o "s")
           /\ (g.kind = "RequestException" /\ conn) =>
                 (~r.is_up /\ r.error_msg = "Connection failed" /\ r.status_code = <<>>)
           /\ (g.kind = "RequestException" /\ ~conn /\ ssl) =>
                 (~r.is_up /\ r.error_msg = "SSL error" /\ r.status_code = <<>>)
           /\ (g.kind = "RequestException" /\ ~conn /\ ~ssl) =>
                 (~r.is_up /\ r.error_msg = "Error: " \o first100 /\ r.status_code = <<>>)
           /\ g.kind = "Exception" =>
                 (~r.is_up /\ r.error_msg = "Unexpected error: " \o first100
                  /\ r.status_code = <<>>)
           /\ r.is_up <=> (g.kind = "response" /\ g.status_code = 200)
           /\ (r.status_code # <<>>) <=> (g.kind = "response")

\* a request failure whose text names both errors, classified
C8_Witness ==
    /\ probe.op = "check_website"
    /\ probe.done
    /\ probe.g.kind = "RequestException"
    /\ probe.g.text = "Caused by SSLError after ConnectionError"
    /\ probe.result.error_msg = "Connection failed"

\* C6 as stated: save_state(m) followed by load_state() returns m, whatever
\* the state file held before.
C6_RoundTripAlways ==
    (probe.op = "round_trip" /\ probe.step = "loaded") =>
        (IsDict(probe.loaded) /\ DictEq(probe.loaded, probe.m))

\* C6 amended: save_state(m) followed by load_state() returns m, whatever
\* the state file held before, when the write and the read both succeed.
C6_RoundTrip ==
    (probe.op = "round_trip" /\ probe.step = "loaded"
     /\ probe.write = "ok" /\ probe.opened = "ok") =>
        (IsDict(probe.loaded) /\ DictEq(probe.loaded, probe.m))

\* a map of two sites, one up and one down, read back over a file that held
\* something else
C6_Witness ==
    /\ probe.op = "round_trip"
    /\ probe.step = "loaded"
    /\ probe.write = "ok"
    /\ probe.opened = "ok"
    /\ Len(probe.m.items) = 2
    /\ probe.m.items[1].value.b # probe.m.items[2].value.b
    /\ probe.before.exists
    /\ probe.before.text # JsonDump(probe.m)
    /\ probe.loaded = probe.m

\* previous_state.get(c.website, True) differs from the new is_up of check c
Differs(c) == ~PyEq(PyBool(c.is_up), DictGet(previous_state, c.website, PyBool(TRUE)))

IsStatusSend(m) == m.kind = "status"
IsSummarySend(m) == m.kind = "summary"
StatusSends == SelectSeq(sent, IsStatusSend)
Summaries == SelectSeq(sent, IsSummarySend)

\* the per-site message of change record c
MessageOf(c, m) ==
    \E now \in Clock :
       m = format_status_message(c.website, c.is_up, c.error_msg, c.status_code, now)

\* C9: nothing is sent before every target has been checked; the change
\* records are exactly the checks whose is_up differs from
\* previous_state.get(url, True), in target-list order; and each record gets
\* exactly one per-site send, in that order, whatever earlier sends returned.
\* (Where previous_state is no dict the lookup raises: no record, no send.)
C9_OneSendPerChange ==
    /\ pc \in {"Start", "Loaded", "Raised"} => sent = <<>>
    /\ (pc \in AfterLoad /\ ~IsDict(previous_state)) => status_changed = <<>>
    /\ (pc \in AfterLoad /\ IsDict(previous_state)) =>
          /\ Len(checked) = i
          /\ \A n \in 1..i : checked[n].website = WEBSITES[n]
          /\ status_changed = SelectSeq(checked, Differs)
    /\ pc \in ({"Checked"} \cup AfterNotify) =>
          /\ i = Len(WEBSITES)
          /\ Len(StatusSends) = j
          /\ j <= Len(status_changed)
          /\ \A n \in 1..j : sent[n].kind = "status" /\ MessageOf(status_changed[n], sent[n].message)
    /\ pc \in AfterNotify => Len(StatusSends) = Len(status_changed)

\* previous {a: up}, a answers 500: one record, one send; here with a second
\* change sent after the first send failed
C9_Witness ==
    /\ pc = "Done"
    /\ Len(status_changed) = 2
    /\ status_changed[1] = [website |-> "https://a.test", is_up |-> FALSE,
                            error_msg |-> "HTTP 500", status_code |-> <<500>>]
    /\ DictGet(previous_state, "https://a.test", PyNone) = PyBool(TRUE)
    /\ Len(StatusSends) = 2
    /\ ~sent[1].returned

\* the checks of u that found it down, the change records of u, the per-site
\* messages of u
DownChecks(u) == SelectSeq(checked, LAMBDA c : c.website = u /\ ~c.is_up)
RecordsOf(u) == SelectSeq(status_changed, LAMBDA c : c.website = u)
MessagesOf(u) == SelectSeq(sent, LAMBDA m : m.kind = "status" /\ Contains(m.message[1], u))

\* C3: a target with no entry in the loaded map is compared with "up": each
\* down reading of it gives a change record and a notification, an up
\* reading gives none; with an empty previous map and every target up
\* nothing is sent and the map handed to the saver has every target true.
C3_AbsentMeansUp ==
    (pc \in AfterLoad /\ IsDict(previous_state)) =>
        /\ \A u \in URLS : u \notin DictKeys(previous_state) =>
              /\ RecordsOf(u) = DownChecks(u)
              /\ pc \in AfterNotify => Len(MessagesOf(u)) = Len(DownChecks(u))
        /\ (pc \in AfterNotify /\ previous_state = EmptyDict
            /\ \A n \in 1..Len(checked) : checked[n].is_up) =>
              /\ sent = <<>>
              /\ DictKeys(current_state) = TargetSet
              /\ \A u \in TargetSet : DictGet(current_state, u, PyNone) = PyBool(TRUE)
              /\ (pc \in AfterSave /\ io.write = "ok") => FileHolds(current_state)

\* no state file, b found down and a found up: one record and one message,
\* both for b
C3_Witness ==
    /\ pc = "Done"
    /\ io.read = "absent"
    /\ previous_state = EmptyDict
    /\ WEBSITES = <<"https://a.test", "https://b.test">>
    /\ checked[1].is_up
    /\ ~checked[2].is_up
    /\ Len(status_changed) = 1
    /\ status_changed[1].website = "https://b.test"
    /\ Len(sent) >= 1
    /\ Len(MessagesOf("https://b.test")) = 1
    /\ Len(MessagesOf("https://a.test")) = 0

UpHeader == "U+2705 <b>UP:</b>"
DownHeader == "U+1F534 <b>DOWN:</b>"
LinesEqual(msg, line) == {n \in 1..Len(msg) : msg[n] = line}
BulletLines(msg) == {n \in 1..Len(msg) : Len(msg[n]) > 9 /\ SubSeq(msg[n], 1, 9) = "  U+2022 "}

\* summary msg lists every key of state once, under UP if true and under
\* DOWN if false, and has no section that would be empty
SummaryLists(msg, state) ==
    /\ Cardinality(BulletLines(msg)) = Cardinality(DictKeys(state))
    /\ \A u \in DictKeys(state) :
          /\ Cardinality(LinesEqual(msg, "  U+2022 " \o u)) = 1
          /\ \A k \in LinesEqual(msg, "  U+2022 " \o u) :
                IF DictGet(state, u, PyNone) = PyBool(TRUE)
                THEN /\ \E h \in LinesEqual(msg, UpHeader) : h < k
                     /\ \A d \in LinesEqual(msg, DownHeader) : k < d
                ELSE \E d \in LinesEqual(msg, DownHeader) : d < k
    /\ Cardinality(LinesEqual(msg, UpHeader)) =
          IF \E u \in DictKeys(state) : DictGet(state, u, PyNone) = PyBool(TRUE) THEN 1 ELSE 0
    /\ Cardinality(LinesEqual(msg, DownHeader)) =
          IF \E u \in DictKeys(state) : DictGet(state, u, PyNone) = PyBool(FALSE) THEN 1 ELSE 0

\* C10: website_monitor_config.py sends the summary once in a run with a
\* change record and never in a run without; it follows every per-site
\* message, precedes the save, and lists every URL of the new map once,
\* under UP or DOWN by its value, omitting a section that would be empty.
C10_SummaryOnceAfterChanges ==
    variant = "config" =>
        /\ pc \in {"Start", "Loaded", "Checked", "Raised"} => Summaries = <<>>
        /\ pc \in {"Start", "Loaded", "Checked", "Notified", "Raised"} => io.write = "none"
        /\ (pc \in AfterNotify /\ status_changed = <<>>) => sent = <<>>
        /\ (pc \in AfterNotify /\ status_changed # <<>>) =>
              /\ Len(Summaries) = 1
              /\ Len(sent) = Len(status_changed) + 1
              /\ sent[Len(sent)].kind = "summary"
              /\ SummaryLists(sent[Len(sent)].message, current_state)

\* one site changed, the other did not; the per-site send failed; the
\* summary lists both sites, one under UP and one under DOWN
C10_Witness ==
    /\ variant = "config"
    /\ pc = "Saved"
    /\ Len(status_changed) = 1
    /\ Len(sent) = 2
    /\ ~sent[1].returned
    /\ sent[2].kind = "summary"
    /\ Len(current_state.items) = 2
    /\ Cardinality(LinesEqual(sent[2].message, UpHeader)) = 1
    /\ Cardinality(LinesEqual(sent[2].message, DownHeader)) = 1

\* the keys of the map STATE_FILE holds
PersistedKeys ==
    IF STATE_FILE.exists /\ JsonLoad(STATE_FILE.text).ok /\ IsDict(JsonLoad(STATE_FILE.text).value)
    THEN DictKeys(JsonLoad(STATE_FILE.text).value)
    ELSE {}

\* C7 as stated: after the save of any run the keys of the persisted map are
\* configured targets.
C7_KeysConfiguredAfterAnySave ==
    pc \in AfterSave => PersistedKeys \subseteq TargetSet

\* C7 amended: after the save of a run in which save_state could open the
\* state file for writing, the keys of the persisted map are configured
\* targets; after a write that succeeded the file holds the new map.
C7_KeysConfiguredAfterSave ==
    /\ (pc \in AfterSave /\ io.write # "open_fails") => PersistedKeys \subseteq TargetSet
    /\ (pc \in AfterSave /\ io.write = "ok") =>
          /\ FileHolds(current_state)
          /\ DictKeys(current_state) = TargetSet

\* the loaded map had an entry for b, b is no target any more, and the file
\* written has no entry for b
C7_Witness ==
    /\ pc = "Saved"
    /\ io.write = "ok"
    /\ IsDict(previous_state)
    /\ "https://b.test" \in DictKeys(previous_state)
    /\ TargetSet = {"https://a.test"}
    /\ PersistedKeys = {"https://a.test"}

\* the second of two runs in a row, its checks done, with the same targets
\* and the same classification of each target as in the first, which ran to
\* its end
SecondRunSame ==
    /\ last_run.ran
    /\ last_run.ended = "Done"
    /\ WEBSITES = last_run.websites
    /\ pc \in ({"Checked"} \cup AfterNotify)
    /\ Results(checked) = last_run.results

\* C2 as stated: a second run with the same targets and classifications
\* queues no change record and sends nothing.
C2_SecondRunSilentAlways ==
    SecondRunSame => (status_changed = <<>> /\ sent = <<>>)

\* C2 amended: a second run with the same targets and classifications queues
\* no change record and sends nothing, when the first run wrote its map, the
\* second run read it, and each check agrees with what the first run's map
\* records for its URL.
C2_SecondRunSilent ==
    (/\ SecondRunSame
     /\ last_run.write = "ok"
     /\ io.read = "ok"
     /\ \A n \in 1..Len(checked) :
           DictGet(last_run.state, checked[n].website, PyNone) = PyBool(checked[n].is_up))
    => (status_changed = <<>> /\ sent = <<>>)

\* a second run that found a down and an up site as the first did, and
\* ended having sent nothing
C2_Witness ==
    /\ SecondRunSame
    /\ last_run.write = "ok"
    /\ io.read = "ok"
    /\ pc = "Done"
    /\ last_run.results = <<FALSE, TRUE>>
    /\ WEBSITES = <<"https://a.test", "https://b.test">>
    /\ current_state = last_run.state
    /\ sent = <<>>

====
